---- MODULE Spec2Model ----
(***************************************************************************)
(* A model of salt/modules/freebsd_status.py: the text parsers behind the  *)
(* status.* operations of a minion.  Every public function is one action:  *)
(* it reads the text its collaborators hand it (command output, sysctl     *)
(* values, pseudo-files) and leaves either a result in ret or the          *)
(* exception it raised in exc.  Text is a sequence of one-character        *)
(* strings, so that splitting, stripping and numeric conversion are        *)
(* computed and not assumed.  The module is Python 2 code (integer "/",    *)
(* str passed to struct.unpack) and is modelled with those semantics.      *)
(***************************************************************************)
EXTENDS Integers, Sequences, FiniteSets, TLC

VARIABLES
    call,    \* the operation being run
    pc,      \* "start" before the call, "done" after a return, "raised" after an exception
    input,   \* what the collaborators return for this call (a record)
    ret,     \* the value returned (meaningful when pc = "done")
    exc      \* the exception raised (meaningful when pc = "raised")

vars == <<call, pc, input, ret, exc>>

----------------------------------------------------------------------------
(* Bounds of the model *)

MaxTokLen == 4

MaxLines == 4

MaxCpTokens == 11

MaxDevLines == 2

MaxArgs == 2

----------------------------------------------------------------------------
(* Python primitives *)

\* A Python dict: a function whose domain is the set of keys.
EmptyDict == [k \in {} |-> 0]

Put(d, k, v) == [x \in (DOMAIN d) \cup {k} |-> IF x = k THEN v ELSE d[x]]

Digits == {"0", "1", "2", "3", "4", "5", "6", "7", "8", "9"}

DigitVal(c) ==
    CASE c = "0" -> 0 [] c = "1" -> 1 [] c = "2" -> 2 [] c = "3" -> 3
      [] c = "4" -> 4 [] c = "5" -> 5 [] c = "6" -> 6 [] c = "7" -> 7
      [] c = "8" -> 8 [] c = "9" -> 9

IsSpace(c) == c \in {" ", "\t"}

Tail_n(s, n) == SubSeq(s, n + 1, Len(s))

\* str.lstrip() / str.rstrip() / str.strip()
RECURSIVE lstrip(_)
lstrip(s) == IF s # <<>> /\ IsSpace(Head(s)) THEN lstrip(Tail(s)) ELSE s

RECURSIVE rstrip(_)
rstrip(s) ==
    IF s # <<>> /\ IsSpace(s[Len(s)]) THEN rstrip(SubSeq(s, 1, Len(s) - 1)) ELSE s

strip(s) == rstrip(lstrip(s))

\* The longest prefix of s without whitespace.
RECURSIVE Word(_)
Word(s) ==
    IF s = <<>> \/ IsSpace(Head(s)) THEN <<>> ELSE <<Head(s)>> \o Word(Tail(s))

\* str.split(): the maximal runs of non-whitespace, in order.
RECURSIVE split(_)
split(s) ==
    LET t == lstrip(s) IN
    IF t = <<>> THEN <<>>
    ELSE LET w == Word(t) IN <<w>> \o split(Tail_n(t, Len(w)))

\* The longest prefix of s without the separator c.
RECURSIVE Upto(_, _)
Upto(s, c) ==
    IF s = <<>> \/ Head(s) = c THEN <<>> ELSE <<Head(s)>> \o Upto(Tail(s), c)

\* str.split(c) for a one-character separator: the pieces between separators,
\* empty pieces included.
RECURSIVE splitOn(_, _)
splitOn(s, c) ==
    LET p == Upto(s, c) IN
    IF Len(p) = Len(s) THEN <<p>>
    ELSE <<p>> \o splitOn(Tail_n(s, Len(p) + 1), c)

\* ' '.join(words)
RECURSIVE join(_)
join(words) ==
    IF words = <<>> THEN <<>>
    ELSE IF Len(words) = 1 THEN words[1]
    ELSE words[1] \o <<" ">> \o join(Tail(words))

\* str.replace(c, '') for a one-character c
RECURSIVE remove(_, _)
remove(s, c) ==
    IF s = <<>> THEN <<>>
    ELSE IF Head(s) = c THEN remove(Tail(s), c)
    ELSE <<Head(s)>> \o remove(Tail(s), c)

\* The decimal text of a natural number, as str.format prints it.
DigitChar(d) ==
    CASE d = 0 -> "0" [] d = 1 -> "1" [] d = 2 -> "2" [] d = 3 -> "3"
      [] d = 4 -> "4" [] d = 5 -> "5" [] d = 6 -> "6" [] d = 7 -> "7"
      [] d = 8 -> "8" [] d = 9 -> "9"

RECURSIVE str(_)
str(n) == IF n < 10 THEN <<DigitChar(n)>> ELSE str(n \div 10) \o <<DigitChar(n % 10)>>

----------------------------------------------------------------------------
(* int() and float() of a str, and _number *)

AllDigits(s) == s # <<>> /\ \A i \in 1..Len(s) : s[i] \in Digits

RECURSIVE DigitsVal(_)
DigitsVal(s) ==
    IF s = <<>> THEN 0 ELSE 10 * DigitsVal(SubSeq(s, 1, Len(s) - 1)) + DigitVal(s[Len(s)])

HasSign(s) == s # <<>> /\ Head(s) \in {"+", "-"}

Unsigned(s) == IF HasSign(s) THEN Tail(s) ELSE s

Sign(s) == IF s # <<>> /\ Head(s) = "-" THEN -1 ELSE 1

\* int(text): surrounding whitespace is dropped, one sign is allowed, the rest
\* must be decimal digits; anything else is a ValueError.
int_ok(text) == AllDigits(Unsigned(strip(text)))

int_val(text) == Sign(strip(text)) * DigitsVal(Unsigned(strip(text)))

Lower(c) ==
    CASE c = "E" -> "e" [] c = "N" -> "n" [] c = "A" -> "a" [] c = "I" -> "i"
      [] c = "F" -> "f" [] c = "T" -> "t" [] c = "Y" -> "y" [] OTHER -> c

LowerAll(s) == [i \in 1..Len(s) |-> Lower(s[i])]

\* The mantissa of a decimal literal: digits, digits. , digits.digits , .digits
MantissaOk(m) ==
    LET ip == Upto(m, ".")
        fp == IF Len(ip) = Len(m) THEN <<>> ELSE Tail_n(m, Len(ip) + 1)
    IN  /\ \A i \in 1..Len(ip) : ip[i] \in Digits
        /\ \A i \in 1..Len(fp) : fp[i] \in Digits
        /\ Len(ip) + Len(fp) > 0

\* float(text): whitespace dropped, one sign allowed, then inf, infinity, nan
\* (any case) or a decimal literal with an optional exponent.
float_ok(text) ==
    LET u == LowerAll(Unsigned(strip(text)))
        m == Upto(u, "e")
    IN  \/ u \in { <<"i","n","f">>, <<"n","a","n">>,
                   <<"i","n","f","i","n","i","t","y">> }
        \/ /\ MantissaOk(m)
           /\ \/ Len(m) = Len(u)
              \/ AllDigits(Unsigned(Tail_n(u, Len(m) + 1)))

\* A float's value, exact in decimal: mant * 10^exp with mant not divisible
\* by 10 (binary rounding is not modelled), or one of inf, -inf, nan.
RECURSIVE Normal(_, _)
Normal(mant, e) ==
    IF mant = 0 THEN [mant |-> 0, exp |-> 0]
    ELSE IF mant % 10 = 0 THEN Normal(mant \div 10, e + 1)
    ELSE [mant |-> mant, exp |-> e]

float_val(text) ==
    LET t == strip(text)
        u == LowerAll(Unsigned(t))
        m == Upto(u, "e")
        ip == Upto(m, ".")
        fp == IF Len(ip) = Len(m) THEN <<>> ELSE Tail_n(m, Len(ip) + 1)
        ex == IF Len(m) = Len(u) THEN 0
              ELSE LET x == Tail_n(u, Len(m) + 1) IN Sign(x) * DigitsVal(Unsigned(x))
    IN  IF u = <<"n","a","n">> THEN [special |-> "nan"]
        ELSE IF u \in { <<"i","n","f">>, <<"i","n","f","i","n","i","t","y">> }
        THEN [special |-> IF Sign(t) = -1 THEN "-inf" ELSE "inf"]
        ELSE LET n == Normal(DigitsVal(ip \o fp), ex - Len(fp))
             IN  [mant |-> Sign(t) * n.mant, exp |-> n.exp]

Integer(v) == [kind |-> "Integer", val |-> v]
Float(v) == [kind |-> "Float", val |-> v]
Text(t) == [kind |-> "Text", val |-> t]

\* A coercion that tries the float conversion before the integer one.
number_float_first(text) ==
    IF float_ok(text) THEN Float(float_val(text))
    ELSE IF int_ok(text) THEN Integer(int_val(text))
    ELSE Text(text)

\* _number(text): int() first, float() when int() raises ValueError, the
\* text itself when float() raises ValueError too.
_number(text) ==
    IF int_ok(text) THEN Integer(int_val(text))
    ELSE IF float_ok(text) THEN Float(float_val(text))
    ELSE Text(text)

\* The operation under check when _number is exercised on its own.
number_call ==
    /\ call = "_number"
    /\ pc = "start"
    /\ pc' = "done"
    /\ ret' = _number(input.text)
    /\ UNCHANGED <<call, input, exc>>

TokenAlphabet == {"0", "7", "-", "+", ".", "e", "n", "a", " "}

Tokens == UNION { [1..n -> TokenAlphabet] : n \in 0..MaxTokLen }

InitNumber ==
    /\ call = "_number"
    /\ pc = "start"
    /\ input \in { [text |-> t] : t \in Tokens }
    /\ ret = <<>>
    /\ exc = "none"

SpecNumber == InitNumber /\ [][number_call]_vars

----------------------------------------------------------------------------
(* Outcomes of a call, and reading text *)

Return(v) == [exc |-> "none", ret |-> v]

Raise(e) == [exc |-> e, ret |-> EmptyDict]

\* The call ends: it returned r.ret, or raised r.exc.
Finish(r) ==
    /\ pc' = IF r.exc = "none" THEN "done" ELSE "raised"
    /\ ret' = r.ret
    /\ exc' = r.exc

\* text.split('\n'): as read from a pseudo-file or a command's output.
split_nl(text) == splitOn(text, "\n")

\* text.splitlines(): no empty last line after a final line break.
splitlines(text) ==
    LET p == splitOn(text, "\n") IN
    IF p[Len(p)] = <<>> THEN SubSeq(p, 1, Len(p) - 1) ELSE p

\* The text whose lines are the given ones, one line break between two lines.
RECURSIVE JoinLines(_)
JoinLines(ls) ==
    IF ls = <<>> THEN <<>>
    ELSE IF Len(ls) = 1 THEN ls[1]
    ELSE ls[1] \o <<"\n">> \o JoinLines(Tail(ls))

\* list.index(x): the 0-based position of the first x.
RECURSIVE index(_, _)
index(list, x) == IF Head(list) = x THEN 0 ELSE 1 + index(Tail(list), x)

In(x, list) == \E i \in 1..Len(list) : list[i] = x

\* The sequence ls without the positions in drop.
Without(ls, drop) ==
    LET F[i \in 0..Len(ls)] ==
            IF i = 0 THEN <<>>
            ELSE IF i \in drop THEN F[i - 1] ELSE Append(F[i - 1], ls[i])
    IN  F[Len(ls)]

\* All sequences of at most n elements of S.
SeqsUpTo(S, n) == UNION { [1..k -> S] : k \in 0..n }

----------------------------------------------------------------------------
(* vmstats *)

RECURSIVE vmstats_loop(_, _)
vmstats_loop(stats, r) ==
    IF stats = <<>> THEN Return(r)
    ELSE LET line == Head(stats) IN
         IF line = <<>> THEN vmstats_loop(Tail(stats), r)
         ELSE LET comps == split(line) IN
              IF Len(comps) < 2 THEN Raise("IndexError")
              ELSE vmstats_loop(Tail(stats), Put(r, comps[1], _number(comps[2])))

vmstats(isfile, text) ==
    IF ~isfile THEN Return(EmptyDict)
    ELSE vmstats_loop(split_nl(text), EmptyDict)

vmstats_call ==
    /\ call = "vmstats"
    /\ pc = "start"
    /\ \E r \in { vmstats(input.isfile, input.text) } : Finish(r)
    /\ UNCHANGED <<call, input>>

----------------------------------------------------------------------------
(* netstats *)

\* The inner loop over field in range(index): position 0 is skipped, every
\* other position below index reads headers[field] and comps[field].
RECURSIVE netstats_row(_, _, _, _, _)
netstats_row(headers, comps, field, idx, row) ==
    IF field >= idx THEN Return(row)
    ELSE IF field < 1 THEN netstats_row(headers, comps, field + 1, idx, row)
    ELSE IF field >= Len(comps) THEN Raise("IndexError")
    ELSE netstats_row(headers, comps, field + 1, idx,
                      Put(row, headers[field + 1], _number(comps[field + 1])))

netstats_index(headers) == Len(headers) - 1

RECURSIVE netstats_loop(_, _, _)
netstats_loop(stats, headers, r) ==
    IF stats = <<>> THEN Return(r)
    ELSE LET line == Head(stats) IN
         IF line = <<>> THEN netstats_loop(Tail(stats), headers, r)
         ELSE LET comps == split(line) IN
              IF comps = <<>> THEN Raise("IndexError")
              ELSE IF comps[1] = headers[1]
              THEN LET row == netstats_row(headers, comps, 0,
                                           netstats_index(headers), EmptyDict)
                   IN  IF row.exc # "none" THEN row
                       ELSE netstats_loop(Tail(stats), headers,
                                          Put(r, remove(headers[1], ":"), row.ret))
              ELSE netstats_loop(Tail(stats), comps, r)

netstats(isfile, text) ==
    IF ~isfile THEN Return(EmptyDict)
    ELSE netstats_loop(split_nl(text), << <<>> >>, EmptyDict)

netstats_call ==
    /\ call = "netstats"
    /\ pc = "start"
    /\ \E r \in { netstats(input.isfile, input.text) } : Finish(r)
    /\ UNCHANGED <<call, input>>

----------------------------------------------------------------------------
(* netdev *)

\* list.insert(i, x) for a 0-based i within the list.
insert(list, i, x) == SubSeq(list, 1, i) \o <<x>> \o SubSeq(list, i + 1, Len(list))

netdev_record(comps) ==
    [iface |-> comps[1],
     rx_bytes |-> _number(comps[2]),
     rx_compressed |-> _number(comps[8]),
     rx_drop |-> _number(comps[5]),
     rx_errs |-> _number(comps[4]),
     rx_fifo |-> _number(comps[6]),
     rx_frame |-> _number(comps[7]),
     rx_multicast |-> _number(comps[9]),
     rx_packets |-> _number(comps[3]),
     tx_bytes |-> _number(comps[10]),
     tx_carrier |-> _number(comps[16]),
     tx_colls |-> _number(comps[15]),
     tx_compressed |-> _number(comps[17]),
     tx_drop |-> _number(comps[13]),
     tx_errs |-> _number(comps[12]),
     tx_fifo |-> _number(comps[14]),
     tx_packets |-> _number(comps[11])]

\* The tokens of a line with a colon, as the loop body rebuilds them:
\* position 0 becomes the text before the first colon, and the first token
\* after that colon is inserted at position 1.
netdev_comps(line) ==
    LET comps == split(line)
        parts == splitOn(line, ":")
        name  == strip(parts[1])
        rest  == split(strip(parts[2]))
    IN  insert([comps EXCEPT ![1] = name], 1, rest[1])

RECURSIVE netdev_loop(_, _)
netdev_loop(stats, r) ==
    IF stats = <<>> THEN Return(r)
    ELSE LET line == Head(stats) IN
         IF line = <<>> THEN netdev_loop(Tail(stats), r)
         ELSE IF ~In(":", line) THEN netdev_loop(Tail(stats), r)
         ELSE IF split(strip(splitOn(line, ":")[2])) = <<>> THEN Raise("IndexError")
         ELSE LET comps == netdev_comps(line) IN
              IF Len(comps) < 17 THEN Raise("IndexError")
              ELSE netdev_loop(Tail(stats), Put(r, comps[1], netdev_record(comps)))

netdev(isfile, text) ==
    IF ~isfile THEN Return(EmptyDict)
    ELSE netdev_loop(split_nl(text), EmptyDict)

netdev_call ==
    /\ call = "netdev"
    /\ pc = "start"
    /\ \E r \in { netdev(input.isfile, input.text) } : Finish(r)
    /\ UNCHANGED <<call, input>>

----------------------------------------------------------------------------
(* w *)

RECURSIVE w_loop(_, _)
w_loop(users, user_list) ==
    IF users = <<>> THEN Return(user_list)
    ELSE LET row == Head(users) IN
         IF row = <<>> THEN w_loop(Tail(users), user_list)
         ELSE LET comps == split(row) IN
              IF Len(comps) < 6 THEN Raise("IndexError")
              ELSE w_loop(Tail(users),
                          Append(user_list,
                                 [idle |-> comps[4],
                                  jcpu |-> comps[5],
                                  login |-> comps[3],
                                  pcpu |-> comps[6],
                                  tty |-> comps[2],
                                  user |-> comps[1],
                                  what |-> join(Tail_n(comps, 6))]))

w(out) == w_loop(split_nl(out), <<>>)

w_call ==
    /\ call = "w"
    /\ pc = "start"
    /\ \E r \in { w(input.out) } : Finish(r)
    /\ UNCHANGED <<call, input>>

----------------------------------------------------------------------------
(* procs *)

USER == <<"U","S","E","R">>
UID == <<"U","I","D">>
PID == <<"P","I","D">>
COMMAND == <<"C","O","M","M","A","N","D">>
CMD == <<"C","M","D">>

\* A user column that prefers UID to USER.
procs_uind_uid_first(guide) ==
    IF In(UID, guide) THEN index(guide, UID)
    ELSE IF In(USER, guide) THEN index(guide, USER)
    ELSE 0

procs_uind(guide) ==
    IF In(USER, guide) THEN index(guide, USER)
    ELSE IF In(UID, guide) THEN index(guide, UID)
    ELSE 0

procs_pind(guide) == IF In(PID, guide) THEN index(guide, PID) ELSE 0

procs_cind(guide) ==
    IF In(COMMAND, guide) THEN index(guide, COMMAND)
    ELSE IF In(CMD, guide) THEN index(guide, CMD)
    ELSE 0

RECURSIVE procs_loop(_, _, _, _, _)
procs_loop(plines, uind, pind, cind, r) ==
    IF plines = <<>> THEN Return(r)
    ELSE LET line == Head(plines) IN
         IF line = <<>> THEN procs_loop(Tail(plines), uind, pind, cind, r)
         ELSE LET comps == split(line) IN
              IF pind >= Len(comps) \/ uind >= Len(comps) THEN Raise("IndexError")
              ELSE procs_loop(Tail(plines), uind, pind, cind,
                              Put(r, comps[pind + 1],
                                  [user |-> comps[uind + 1],
                                   cmd |-> join(Tail_n(comps, cind))]))

procs(out) ==
    LET plines == split_nl(out)
        guide == split(Head(plines))
    IN  procs_loop(Tail(plines), procs_uind(guide), procs_pind(guide),
                   procs_cind(guide), EmptyDict)

procs_call ==
    /\ call = "procs"
    /\ pc = "start"
    /\ \E r \in { procs(input.out) } : Finish(r)
    /\ UNCHANGED <<call, input>>

----------------------------------------------------------------------------
(* cpustats *)

K_btime == <<"b","t","i","m","e">>
K_cpu == <<"c","p","u">>
K_intr == <<"i","n","t","r">>
K_irqs == <<"i","r","q","s">>
K_total == <<"t","o","t","a","l">>
K_processes == <<"p","r","o","c","e","s","s","e","s">>
K_procs_blocked == <<"p","r","o","c","s","_","b","l","o","c","k","e","d">>
K_procs_running == <<"p","r","o","c","s","_","r","u","n","n","i","n","g">>

startswith(s, prefix) ==
    Len(s) >= Len(prefix) /\ SubSeq(s, 1, Len(prefix)) = prefix

Min(a, b) == IF a < b THEN a ELSE b

\* list[a:b] for 0 <= a <= b
slice(list, a, b) == SubSeq(list, a + 1, Min(b, Len(list)))

\* struct.unpack('@i', data)[0]: four bytes read as a signed integer in the
\* machine's byte order (little-endian on the i386 and amd64 ports);
\* struct.error for any other length.
unpack_i(data) ==
    LET high == IF data[4] >= 128 THEN data[4] - 256 ELSE data[4] IN
    data[1] + 256 * data[2] + 65536 * data[3] + 16777216 * high

_cputime(user, nice, system, irq, idle) ==
    [user |-> _number(user),
     nice |-> _number(nice),
     system |-> _number(system),
     irq |-> _number(irq),
     idle |-> _number(idle)]

\* _cputime(*args) for five arguments (any other number is a TypeError).
_cputime_star(a) == _cputime(a[1], a[2], a[3], a[4], a[5])

\* A core count that rounds up, so that a trailing partial group is a core.
cpustats_ncpus_ceiling(cpus) == (Len(cpus) + 4) \div 5

\* range(len(cpus)/5): Python 2 integer division.
cpustats_ncpus(cpus) == Len(cpus) \div 5

\* 'cpu{0}'.format(ncpu)
cpu_key(ncpu) == K_cpu \o str(ncpu)

\* n * [0]
Zeros(n) == [i \in 1..n |-> Integer(0)]

\* irqs.extend((irqnum - len(irqs)) * [0]) when len(irqs) < irqnum
irq_extend(irqs, irqnum) ==
    IF Len(irqs) < irqnum THEN irqs \o Zeros(irqnum - Len(irqs)) ELSE irqs

\* The 1-based position that irqs[irqnum-1] names in a list of n entries: a
\* negative index counts from the end of the list.  The assignment is an
\* IndexError when the position is not within 1..n.
irq_position(n, irqnum) == IF irqnum - 1 >= 0 THEN irqnum ELSE n + irqnum

\* pss[4] == '0': the row of a kernel thread
ps_kernel_thread(pss) == pss[5] = <<"0">>

ps_blocked(pss) == In("D", pss[8])

\* A running test that gives way to the blocked one.
ps_running_unless_blocked(pss) == In("R", pss[8]) /\ ~In("D", pss[8])

ps_running(pss) == In("R", pss[8])

Count(r, k, add) == [r EXCEPT ![k] = Integer(@.val + add)]

\* The loop over the rows of the process listing, and the return.
RECURSIVE cpustats_ps(_, _)
cpustats_ps(ls, r) ==
    IF ls = <<>> THEN Return(r)
    ELSE IF Len(split(Head(ls))) < 5 THEN Raise("IndexError")
    ELSE IF ps_kernel_thread(split(Head(ls))) THEN cpustats_ps(Tail(ls), r)
    ELSE IF Len(split(Head(ls))) < 8 THEN Raise("IndexError")
    ELSE cpustats_ps(Tail(ls),
            Count(Count(Count(r, K_procs_blocked,
                              IF ps_blocked(split(Head(ls))) THEN 1 ELSE 0),
                        K_procs_running,
                        IF ps_running(split(Head(ls))) THEN 1 ELSE 0),
                  K_processes, 1))

\* ret['intr']['irqs'] = irqs, the three counters set to 0, then the rows.
cpustats_counters(in, r, irqs, intr) ==
    cpustats_ps(splitlines(in.ps),
                Put(Put(Put(Put(r, K_intr, Put(intr, K_irqs, irqs)),
                            K_processes, Integer(0)),
                        K_procs_blocked, Integer(0)),
                    K_procs_running, Integer(0)))

\* The number N of the name "irq<N>:" of an interrupt line.
irq_number(irqname) == _number(Tail_n(splitOn(irqname, ":")[1], 3))

\* The loop over the lines of "vmstat -i".
RECURSIVE cpustats_intr(_, _, _, _, _)

\* irqs[irqnum-1] = _number(total), the list extended first when short.
irq_line(in, r, ls, irqs, intr, irqnum, total) ==
    IF irqnum.kind # "Integer" THEN Raise("TypeError")
    ELSE IF irq_position(Len(irq_extend(irqs, irqnum.val)), irqnum.val)
              \notin 1..Len(irq_extend(irqs, irqnum.val))
    THEN Raise("IndexError")
    ELSE cpustats_intr(in, r, ls,
            [irq_extend(irqs, irqnum.val) EXCEPT
                ![irq_position(Len(irq_extend(irqs, irqnum.val)), irqnum.val)]
                    = _number(total)],
            intr)

cpustats_intr(in, r, ls, irqs, intr) ==
    IF ls = <<>> THEN cpustats_counters(in, r, irqs, intr)
    ELSE IF startswith(Head(ls), <<"i","r","q">>)
    THEN \* irqname, dev, total, rate = l.split()
         IF Len(split(Head(ls))) # 4 THEN Raise("ValueError")
         ELSE irq_line(in, r, Tail(ls), irqs, intr,
                       irq_number(split(Head(ls))[1]), split(Head(ls))[3])
    ELSE IF startswith(Head(ls), <<"T","o","t","a","l">>)
    THEN IF Len(split(Head(ls))) < 2 THEN Raise("IndexError")
         ELSE cpustats_intr(in, r, Tail(ls), irqs,
                            Put(intr, K_total, _number(split(Head(ls))[2])))
    ELSE cpustats_intr(in, r, Tail(ls), irqs, intr)

\* The loop over ncpu in range(len(cpus)/5).
RECURSIVE cpustats_cpus(_, _, _, _)
cpustats_cpus(in, r, cpus, ncpu) ==
    IF ncpu >= cpustats_ncpus(cpus)
    THEN cpustats_intr(in, r, splitlines(in.vmstat), <<>>, EmptyDict)
    ELSE IF Len(slice(cpus, ncpu * 5, (ncpu + 1) * 5)) # 5 THEN Raise("TypeError")
    ELSE cpustats_cpus(in,
                       Put(r, cpu_key(ncpu),
                           _cputime_star(slice(cpus, ncpu * 5, (ncpu + 1) * 5))),
                       cpus, ncpu + 1)

\* ret['cpu'] = _cputime(*cpu)
cpustats_cpu(in, r) ==
    IF Len(split(in.cp_time)) # 5 THEN Raise("TypeError")
    ELSE cpustats_cpus(in, Put(r, K_cpu, _cputime_star(split(in.cp_time))),
                       split(in.cp_times), 0)

\* ret['btime'] = struct.unpack('@i', <output>[:4])[0], then the rest.
cpustats(in) ==
    IF Len(slice(in.boottime, 0, 4)) # 4 THEN Raise("struct.error")
    ELSE cpustats_cpu(in, Put(EmptyDict, K_btime,
                              Integer(unpack_i(slice(in.boottime, 0, 4)))))

cpustats_call ==
    /\ call = "cpustats"
    /\ pc = "start"
    /\ \E r \in { cpustats(input) } : Finish(r)
    /\ UNCHANGED <<call, input>>

----------------------------------------------------------------------------
(* diskusage *)

\* A translation in which '?' matches any run of characters, as '*' does.
translate_char_question_run(c) ==
    IF c = "*" \/ c = "?" THEN [re |-> "any_run"]
    ELSE [re |-> "literal", char |-> c]

\* fnmatch.translate(pattern): '*' becomes '.*', '?' becomes '.', any other
\* character stands for itself (escaped); the end of the string is required
\* after them.  The patterns of the model hold no '[': bracket sets are not
\* modelled.  str.format on the outcome changes nothing without braces.
translate_char(c) ==
    IF c = "*" THEN [re |-> "any_run"]
    ELSE IF c = "?" THEN [re |-> "any_char"]
    ELSE [re |-> "literal", char |-> c]

translate(pattern) == [i \in 1..Len(pattern) |-> translate_char(pattern[i])]

\* Whether the regular expression, a sequence of elements then the end of
\* the string, matches the whole of text.
RECURSIVE re_full(_, _)
re_full(regex, text) ==
    IF regex = <<>> THEN text = <<>>
    ELSE LET e == Head(regex) IN
         IF e.re = "any_run"
         THEN \E k \in 0..Len(text) : re_full(Tail(regex), Tail_n(text, k))
         ELSE IF text = <<>> THEN FALSE
         ELSE IF e.re = "any_char" THEN re_full(Tail(regex), Tail(text))
         ELSE e.char = Head(text) /\ re_full(Tail(regex), Tail(text))

\* re.compile('|'.join(...)).match(text): some alternative matches.
re_match(alternatives, text) == \E regex \in alternatives : re_full(regex, text)

is_path(arg) == startswith(arg, <<"/">>)

diskusage_paths(args) == { args[i] : i \in { j \in 1..Len(args) : is_path(args[j]) } }

diskusage_fstypes(args) ==
    IF args = <<>> THEN { <<"*">> }
    ELSE { args[i] : i \in { j \in 1..Len(args) : ~is_path(args[j]) } }

\* The mount points of the lines with three fields or more whose third field
\* the pattern matches.
diskusage_mounts(ls, p) ==
    { split(ls[i])[2] :
        i \in { j \in 1..Len(ls) :
                  Len(split(ls[j])) >= 3 /\ re_match(p, split(ls[j])[3]) } }

diskusage_selected(args, text) ==
    diskusage_paths(args) \cup
        IF diskusage_fstypes(args) # {}
        THEN diskusage_mounts(splitlines(text),
                              { translate(t) : t \in diskusage_fstypes(args) })
        ELSE {}

\* in.statvfs maps the paths os.statvfs answers for to their statistics; it
\* raises OSError for any other path.
diskusage(in) ==
    IF ~in.isfile THEN Return(EmptyDict)
    ELSE LET selected == diskusage_selected(in.args, in.text) IN
         IF \E path \in selected : path \notin DOMAIN in.statvfs
         THEN Raise("OSError")
         ELSE Return([path \in selected |->
                        [available |-> Integer(in.statvfs[path].f_bavail
                                                 * in.statvfs[path].f_bsize),
                         total |-> Integer(in.statvfs[path].f_blocks
                                             * in.statvfs[path].f_bsize)]])

diskusage_call ==
    /\ call = "diskusage"
    /\ pc = "start"
    /\ \E r \in { diskusage(input) } : Finish(r)
    /\ UNCHANGED <<call, input>>

----------------------------------------------------------------------------
(* diskstats, loadavg, uptime, cpuinfo, all_status *)

diskstats_record(comps) ==
    [major |-> _number(comps[1]),
     minor |-> _number(comps[2]),
     device |-> _number(comps[3]),
     reads_issued |-> _number(comps[4]),
     reads_merged |-> _number(comps[5]),
     sectors_read |-> _number(comps[6]),
     ms_spent_reading |-> _number(comps[7]),
     writes_completed |-> _number(comps[8]),
     writes_merged |-> _number(comps[9]),
     sectors_written |-> _number(comps[10]),
     ms_spent_writing |-> _number(comps[11]),
     io_in_progress |-> _number(comps[12]),
     ms_spent_in_io |-> _number(comps[13]),
     weighted_ms_spent_in_io |-> _number(comps[14])]

RECURSIVE diskstats_loop(_, _)
diskstats_loop(stats, r) ==
    IF stats = <<>> THEN Return(r)
    ELSE LET line == Head(stats) IN
         IF line = <<>> THEN diskstats_loop(Tail(stats), r)
         ELSE LET comps == split(line) IN
              IF Len(comps) < 14 THEN Raise("IndexError")
              ELSE diskstats_loop(Tail(stats), Put(r, comps[3], diskstats_record(comps)))

diskstats(isfile, text) ==
    IF ~isfile THEN Return(EmptyDict)
    ELSE diskstats_loop(split_nl(text), EmptyDict)

\* str.replace(',', '.')
comma_to_dot(text) == [i \in 1..Len(text) |-> IF text[i] = "," THEN "." ELSE text[i]]

loadavg(value) ==
    LET load_avg == split(comma_to_dot(value)) IN
    IF Len(load_avg) < 4 THEN Raise("IndexError")
    ELSE Return([one |-> _number(load_avg[2]),
                 five |-> _number(load_avg[3]),
                 fifteen |-> _number(load_avg[4])])

uptime(out) == Return(strip(out))

\* cpuinfo: with dmidecode installed it calls _cpuinfo_dmidecode, a name the
\* module does not define; without, it returns ret, a name the function does
\* not define.  Both are a NameError.
cpuinfo(dmidecode) ==
    IF dmidecode THEN Raise("NameError") ELSE Raise("NameError")

\* meminfo(): the module defines _meminfo only.
meminfo == Raise("NameError")

all_status_keys ==
    << "cpuinfo", "cpustats", "diskstats", "loadavg", "meminfo", "netdev",
       "netstats", "uptime", "vmstats", "w" >>

\* The value of the i-th entry of the dict display of all_status.
all_status_value(in, i) ==
    CASE i = 1 -> cpuinfo(in.dmidecode)
      [] i = 2 -> cpustats(in)
      [] i = 3 -> diskstats(in.isfile.diskstats, in.diskstats)
      [] i = 4 -> loadavg(in.loadavg)
      [] i = 5 -> meminfo
      [] i = 6 -> netdev(in.isfile.netdev, in.netdev)
      [] i = 7 -> netstats(in.isfile.netstat, in.netstat)
      [] i = 8 -> uptime(in.uptime)
      [] i = 9 -> vmstats(in.isfile.vmstat, in.vmstat_file)
      [] i = 10 -> w(in.w)

\* The values of the display are evaluated in the order written, and the
\* first exception ends the call.
RECURSIVE all_status_eval(_, _, _)
all_status_eval(in, i, r) ==
    IF i > Len(all_status_keys) THEN Return(r)
    ELSE IF all_status_value(in, i).exc # "none" THEN Raise(all_status_value(in, i).exc)
    ELSE all_status_eval(in, i + 1, Put(r, all_status_keys[i], all_status_value(in, i).ret))

all_status(in) == all_status_eval(in, 1, EmptyDict)

all_status_call ==
    /\ call = "all_status"
    /\ pc = "start"
    /\ \E r \in { all_status(input) } : Finish(r)
    /\ UNCHANGED <<call, input>>

----------------------------------------------------------------------------
(* The inputs of the line parsers: texts of at most MaxLines lines, each   *)
(* line drawn from a pool that holds well-formed lines, a blank line and   *)
(* lines shorter than the parser reads.                                    *)

Texts(pool, n) == { JoinLines(ls) : ls \in SeqsUpTo(pool, n) }

\* "a 1", "b 2.5", "a 7", "c", "", " "
VmstatLines ==
    { <<"a"," ","1">>,
      <<"b"," ","2",".","5">>,
      <<"a"," ","7">>,
      <<"c">>,
      <<>>,
      <<" ">> }

\* "T: a b", "T: 1 2", "U: x", "U: 9", "T: 1", "T:", ""
NetstatLines ==
    { <<"T",":"," ","a"," ","b">>,
      <<"T",":"," ","1"," ","2">>,
      <<"U",":"," ","x">>,
      <<"U",":"," ","9">>,
      <<"T",":"," ","1">>,
      <<"T",":">>,
      <<>> }

\* "u t l i j p w x", "v s l i j p", "u t l", ""
WLines ==
    { <<"u"," ","t"," ","l"," ","i"," ","j"," ","p"," ","w"," ","x">>,
      <<"v"," ","s"," ","l"," ","i"," ","j"," ","p">>,
      <<"u"," ","t"," ","l">>,
      <<>> }

\* "USER PID COMMAND", "UID PID CMD", "UID USER PID CMD COMMAND", "PID TT", ""
PsHeaders ==
    { <<"U","S","E","R"," ","P","I","D"," ","C","O","M","M","A","N","D">>,
      <<"U","I","D"," ","P","I","D"," ","C","M","D">>,
      <<"U","I","D"," ","U","S","E","R"," ","P","I","D"," ","C","M","D"," ","C","O","M","M","A","N","D">>,
      <<"P","I","D"," ","T","T">>,
      <<>> }

\* "r 1 i -s", "b 2 sh", "b 1 vi  x", "3", ""
PsRows ==
    { <<"r"," ","1"," ","i"," ","-","s">>,
      <<"b"," ","2"," ","s","h">>,
      <<"b"," ","1"," ","v","i"," "," ","x">>,
      <<"3">>,
      <<>> }

FileInputs(pool) ==
    { [isfile |-> FALSE, text |-> <<>>] }
        \cup { [isfile |-> TRUE, text |-> t] : t \in Texts(pool, MaxLines) }

FileInputs2(pool) ==
    { [isfile |-> FALSE, text |-> <<>>] }
        \cup { [isfile |-> TRUE, text |-> t] : t \in Texts(pool, MaxDevLines) }

InitCall(name, inputs) ==
    /\ call = name
    /\ pc = "start"
    /\ input \in inputs
    /\ ret = EmptyDict
    /\ exc = "none"

InitVmstats == InitCall("vmstats", FileInputs(VmstatLines))

InitNetstats == InitCall("netstats", FileInputs(NetstatLines))

InitW == InitCall("w", { [out |-> t] : t \in Texts(WLines, MaxLines) })

InitProcs ==
    InitCall("procs",
             { [out |-> JoinLines(<<h>> \o rows)] :
                   h \in PsHeaders, rows \in SeqsUpTo(PsRows, MaxLines - 1) })

\* The output of "sysctl -b kern.boottime": a struct timeval, 1234567890 s.
DefaultBoottime == <<210, 2, 150, 73, 0, 0, 0, 0, 0, 0, 0, 0, 0, 0, 0, 0>>

\* "100 1 2 3 4"
DefaultCpTime == <<"1","0","0"," ","1"," ","2"," ","3"," ","4">>

\* "interrupt total rate", "irq1: atkbd0 6 0", "Total 6 0"
DefaultVmstat == <<"i","n","t","e","r","r","u","p","t"," ","t","o","t","a","l"," ","r","a","t","e","\n","i","r","q","1",":"," ","a","t","k","b","d","0"," ","6"," ","0","\n","T","o","t","a","l"," ","6"," ","0">>

\* The header line of "ps auxwww"
PsHeader ==
    <<"U","S","E","R"," ","P","I","D"," ","%","C","P","U"," ","%","M","E","M"," ","V","S","Z"," ","R","S","S"," ","T","T"," ","S","T","A","T"," ","S","T","A","R","T","E","D"," ","T","I","M","E"," ","C","O","M","M","A","N","D">>

\* The header and "root 1 0 0 9 9 - Ss"
DefaultPs == PsHeader \o <<"\n","r","o","o","t"," ","1"," ","0"," ","0"," ","9"," ","9"," ","-"," ","S","s">>

\* kern.cp_times: at most MaxCpTokens counters, each "1" or "20".
CpTimes ==
    { join(toks) : toks \in SeqsUpTo({ <<"1">>, <<"2","0">> }, MaxCpTokens) }

InitCpuTimes ==
    InitCall("cpustats",
             { [boottime |-> b, cp_time |-> c, cp_times |-> t,
                vmstat |-> DefaultVmstat, ps |-> DefaultPs] :
                   b \in { DefaultBoottime, <<1, 2>>, <<0, 0, 0, 128>> },
                   c \in { DefaultCpTime, <<"7"," ","8"," ","9"," ","1">> },
                   t \in CpTimes })

\* "interrupt total rate", "irq0: a 5 0", "irq1: b 6 0", "irq3: c 7 0",
\* "Total 18 0", "cpu0:timer 9 9"
VmstatILines ==
    { <<"i","n","t","e","r","r","u","p","t"," ","t","o","t","a","l"," ","r","a","t","e">>,
      <<"i","r","q","0",":"," ","a"," ","5"," ","0">>,
      <<"i","r","q","1",":"," ","b"," ","6"," ","0">>,
      <<"i","r","q","3",":"," ","c"," ","7"," ","0">>,
      <<"T","o","t","a","l"," ","1","8"," ","0">>,
      <<"c","p","u","0",":","t","i","m","e","r"," ","9"," ","9">> }

InitIntr ==
    InitCall("cpustats",
             { [boottime |-> DefaultBoottime, cp_time |-> DefaultCpTime,
                cp_times |-> DefaultCpTime, vmstat |-> v, ps |-> DefaultPs] :
                   v \in Texts(VmstatILines, MaxLines) })

\* The header, "r 1 0 0 0 0 - DL", "r 2 0 0 9 9 - D", "r 3 0 0 9 9 - R",
\* "r 5 0 0 9 9 - DR", "r 7 0 0 9"
PsStatRows ==
    { PsHeader,
      <<"r"," ","1"," ","0"," ","0"," ","0"," ","0"," ","-"," ","D","L">>,
      <<"r"," ","2"," ","0"," ","0"," ","9"," ","9"," ","-"," ","D">>,
      <<"r"," ","3"," ","0"," ","0"," ","9"," ","9"," ","-"," ","R">>,
      <<"r"," ","5"," ","0"," ","0"," ","9"," ","9"," ","-"," ","D","R">>,
      <<"r"," ","7"," ","0"," ","0"," ","9">> }

InitPs ==
    InitCall("cpustats",
             { [boottime |-> DefaultBoottime, cp_time |-> DefaultCpTime,
                cp_times |-> DefaultCpTime, vmstat |-> DefaultVmstat, ps |-> t] :
                   t \in Texts(PsStatRows, MaxLines) })

SpecCpuTimes == InitCpuTimes /\ [][cpustats_call]_vars

SpecIntr == InitIntr /\ [][cpustats_call]_vars

SpecPs == InitPs /\ [][cpustats_call]_vars

\* Lines of /proc/net/dev: "e0:11 12 ... 26" and "lo:31 32 ... 46", each
\* also with a space after the colon, a title line, a blank line, and two
\* lines that end early, "e0:1 2" and "lo:".
NetdevLines ==
    { <<"e","0",":","1","1"," ","1","2"," ","1","3"," ","1","4"," ","1","5",
        " ","1","6"," ","1","7"," ","1","8"," ","1","9"," ","2","0"," ","2",
        "1"," ","2","2"," ","2","3"," ","2","4"," ","2","5"," ","2","6">>,
      <<"e","0",":"," ","1","1"," ","1","2"," ","1","3"," ","1","4"," ","1",
        "5"," ","1","6"," ","1","7"," ","1","8"," ","1","9"," ","2","0"," ",
        "2","1"," ","2","2"," ","2","3"," ","2","4"," ","2","5"," ","2","6">>,
      <<"l","o",":","3","1"," ","3","2"," ","3","3"," ","3","4"," ","3","5",
        " ","3","6"," ","3","7"," ","3","8"," ","3","9"," ","4","0"," ","4",
        "1"," ","4","2"," ","4","3"," ","4","4"," ","4","5"," ","4","6">>,
      <<"l","o",":"," ","3","1"," ","3","2"," ","3","3"," ","3","4"," ","3",
        "5"," ","3","6"," ","3","7"," ","3","8"," ","3","9"," ","4","0"," ",
        "4","1"," ","4","2"," ","4","3"," ","4","4"," ","4","5"," ","4","6">>,
      <<"f","a","c","e"," ","|","b","y","t","e","s">>,
      <<>>,
      <<"e","0",":","1"," ","2">>,
      <<"l","o",":">> }

InitNetdev == InitCall("netdev", FileInputs2(NetdevLines))

SpecNetdev == InitNetdev /\ [][netdev_call]_vars

\* Lines of /proc/mounts, in the order of the file; a mount table is any
\* selection of them.  "d / ufs", "d /a ext2", "d /b ext3", "d /c ext4",
\* "d /e ext", "d /f extfs", "d /g"
MountLines ==
    << <<"d"," ","/"," ","u","f","s">>,
       <<"d"," ","/","a"," ","e","x","t","2">>,
       <<"d"," ","/","b"," ","e","x","t","3">>,
       <<"d"," ","/","c"," ","e","x","t","4">>,
       <<"d"," ","/","e"," ","e","x","t">>,
       <<"d"," ","/","f"," ","e","x","t","f","s">>,
       <<"d"," ","/","g">> >>

MountTables ==
    { JoinLines(Without(MountLines, drop)) \o <<"\n">> : drop \in SUBSET (1..Len(MountLines)) }

\* "/", "/a", "/nx", "ext?", "*", "ufs", "e*s"
DiskusageArgs ==
    { <<"/">>,
      <<"/","a">>,
      <<"/","n","x">>,
      <<"e","x","t","?">>,
      <<"*">>,
      <<"u","f","s">>,
      <<"e","*","s">> }

\* What os.statvfs answers: every path but "/nx" exists.
Statvfs ==
    [path \in { <<"/">>, <<"/","a">>, <<"/","b">>, <<"/","c">>, <<"/","e">>, <<"/","f">>, <<"/","g">> } |->
        [f_bsize |-> 512, f_bavail |-> Len(path), f_blocks |-> 4 + Len(path)]]

InitDiskusage ==
    InitCall("diskusage",
             { [isfile |-> f, text |-> IF f THEN t ELSE <<>>, args |-> a,
                statvfs |-> Statvfs] :
                   f \in BOOLEAN, t \in MountTables,
                   a \in SeqsUpTo(DiskusageArgs, MaxArgs) })

SpecDiskusage == InitDiskusage /\ [][diskusage_call]_vars

\* "{ 0.10 0.20 0.30 }"
DefaultLoadavg == <<"{"," ","0",".","1","0"," ","0",".","2","0"," ","0",".","3","0"," ","}">>

\* all_status: every pseudo-file present or absent, dmidecode installed or
\* not, the process and session listings filled or empty.
InitAllStatus ==
    InitCall("all_status",
             { [dmidecode |-> d, isfile |-> f,
                boottime |-> DefaultBoottime, cp_time |-> DefaultCpTime,
                cp_times |-> DefaultCpTime, vmstat |-> DefaultVmstat, ps |-> p,
                diskstats |-> <<>>, loadavg |-> DefaultLoadavg, netdev |-> <<>>,
                netstat |-> <<>>, uptime |-> <<"u","p">>, vmstat_file |-> <<>>,
                w |-> u] :
                   d \in BOOLEAN,
                   f \in [{"diskstats", "netdev", "netstat", "vmstat"} -> BOOLEAN],
                   p \in { DefaultPs, <<>> },
                   u \in { <<>>, <<"u"," ","t"," ","l"," ","i"," ","j"," ","p"," ","w">> } })

SpecAllStatus == InitAllStatus /\ [][all_status_call]_vars

SpecNetstats == InitNetstats /\ [][netstats_call]_vars

SpecProcs == InitProcs /\ [][procs_call]_vars

\* The four parsers whose sources do not guarantee a fixed width.
InitRagged == InitVmstats \/ InitNetstats \/ InitW \/ InitProcs

NextRagged == vmstats_call \/ netstats_call \/ w_call \/ procs_call

SpecRagged == InitRagged /\ [][NextRagged]_vars

----------------------------------------------------------------------------
(* Vocabulary of the properties: patterns and readings of the input that   *)
(* do not go through the parsers above.                                    *)

Lines(text) == split_nl(text)

\* The text between the first and the last non-blank character.
Core(t) ==
    LET ns == { i \in 1..Len(t) : t[i] # " " } IN
    IF ns = {} THEN <<>>
    ELSE SubSeq(t, CHOOSE i \in ns : \A j \in ns : i <= j,
                   CHOOSE i \in ns : \A j \in ns : i >= j)

\* ^-?\d+$
IntRegex(t) ==
    LET u == IF t # <<>> /\ t[1] = "-" THEN Tail(t) ELSE t IN
    /\ Len(u) >= 1
    /\ \A i \in 1..Len(u) : u[i] \in Digits

\* ^[+-]?\d+$
SignedIntRegex(t) ==
    LET u == IF t # <<>> /\ t[1] \in {"+", "-"} THEN Tail(t) ELSE t IN
    /\ Len(u) >= 1
    /\ \A i \in 1..Len(u) : u[i] \in Digits

\* ^[+-]?(\d+(\.\d*)?|\.\d+)([eE][+-]?\d+)?$ as an automaton: state 0 is the
\* start, state 9 rejects, states 2, 3, 5 and 8 accept.
DecStep(q, c) ==
    CASE q = 0 /\ c \in {"+", "-"} -> 1
      [] q \in {0, 1, 2} /\ c \in Digits -> 2
      [] q \in {0, 1} /\ c = "." -> 4
      [] q = 2 /\ c = "." -> 3
      [] q \in {3, 4, 5} /\ c \in Digits -> 5
      [] q \in {2, 3, 5} /\ c \in {"e", "E"} -> 6
      [] q = 6 /\ c \in {"+", "-"} -> 7
      [] q \in {6, 7, 8} /\ c \in Digits -> 8
      [] OTHER -> 9

RECURSIVE DecRun(_, _)
DecRun(q, t) == IF t = <<>> THEN q ELSE DecRun(DecStep(q, Head(t)), Tail(t))

DecimalRegex(t) == DecRun(0, t) \in {2, 3, 5, 8}

\* ^[+-]?(inf|infinity|nan)$, in lower case
SpecialFloat(t) ==
    \E s \in {<<>>, <<"+">>, <<"-">>} :
        \E word \in { <<"i","n","f">>, <<"n","a","n">>,
                      <<"i","n","f","i","n","i","t","y">> } : t = s \o word

\* The digits of a natural number without leading zeros are those of the text.
SameDigits(n, d) ==
    LET z == { i \in 1..Len(d) : d[i] # "0" } IN
    IF z = {} THEN n = 0
    ELSE str(n) = SubSeq(d, CHOOSE i \in z : \A j \in z : i <= j, Len(d))

----------------------------------------------------------------------------
(* C5 *)

\* C5, as stated: _number returns an Integer exactly for the tokens matching
\* ^-?\d+$, otherwise a Float for decimal/exponent notation, otherwise the
\* token unchanged.
C5_AsStated ==
    (call = "_number" /\ pc = "done") =>
        LET t == input.text IN
        /\ ret.kind \in {"Integer", "Float", "Text"}
        /\ (ret.kind = "Integer") <=> IntRegex(t)
        /\ (ret.kind = "Float") <=> (~IntRegex(t) /\ DecimalRegex(t))
        /\ (ret.kind = "Text") => ret.val = t

\* C5, amended: _number never raises and returns exactly one of Integer,
\* Float, Text.  It returns an Integer if and only if the token, with the
\* whitespace around it dropped, matches ^[+-]?\d+$, and the Integer is the
\* number those digits and that sign write; otherwise a Float if and only if
\* that text is a decimal/exponent literal with an optional sign or is inf,
\* infinity or nan; otherwise the token itself, unchanged.
C5_Number ==
    /\ call = "_number" => pc \in {"start", "done"}
    /\ (call = "_number" /\ pc = "done") =>
        LET t == input.text
            c == Core(t)
        IN  /\ ret.kind \in {"Integer", "Float", "Text"}
            /\ (ret.kind = "Integer") <=> SignedIntRegex(c)
            /\ (ret.kind = "Integer") =>
                   /\ (ret.val < 0) => c[1] = "-"
                   /\ (c[1] = "-") => ret.val <= 0
                   /\ SameDigits(IF ret.val < 0 THEN -ret.val ELSE ret.val,
                                 IF c[1] \in {"+", "-"} THEN Tail(c) ELSE c)
            /\ (ret.kind = "Float") <=>
                   /\ ~SignedIntRegex(c)
                   /\ DecimalRegex(c) \/ SpecialFloat(LowerAll(c))
            /\ (ret.kind = "Text") => ret.val = t

\* C5: a token with a plus sign has been converted to an Integer.
C5_Witness ==
    /\ call = "_number"
    /\ pc = "done"
    /\ input.text = <<"+", "7">>
    /\ ret = Integer(7)

----------------------------------------------------------------------------
(* C1 *)

\* The text is a run of blocks, each a header line and then a data line with
\* the same first token and as many tokens, no two blocks of one name.
NetstatBlocks(ls) ==
    /\ Len(ls) % 2 = 0
    /\ \A i \in 1..Len(ls) : split(ls[i]) # <<>>
    /\ \A k \in 1..(Len(ls) \div 2) :
          LET h == split(ls[2 * k - 1])
              d == split(ls[2 * k])
          IN  /\ Len(d) = Len(h)
              /\ d[1] = h[1]
              /\ \A j \in 1..(Len(ls) \div 2) :
                     j # k => split(ls[2 * j - 1])[1] # h[1]

\* The block a header line and its data line make: every header token but
\* the first, mapped to the number at the same position of the data line.
NetstatBlock(h, d) ==
    [t \in { h[j] : j \in 2..Len(h) } |->
        _number(d[CHOOSE j \in 2..Len(h) : h[j] = t /\ \A i \in (j+1)..Len(h) : h[i] # t])]

\* C1: for every header line followed by a data line with the same first
\* token and as many tokens, netstats returns a block under the header's
\* first token without its colon, mapping every header token at the
\* positions 1..n-1, the last included, to the number at that position.
C1_EveryHeaderField ==
    (call = "netstats" /\ pc # "start" /\ input.isfile
        /\ NetstatBlocks(Lines(input.text))) =>
        /\ pc = "done"
        /\ \A k \in 1..(Len(Lines(input.text)) \div 2) :
              LET h == split(Lines(input.text)[2 * k - 1])
                  d == split(Lines(input.text)[2 * k])
                  name == SelectSeq(h[1], LAMBDA c : c # ":")
              IN  /\ name \in DOMAIN ret
                  /\ ret[name] = NetstatBlock(h, d)

----------------------------------------------------------------------------
(* C9 *)

\* The 0-based position of the first of the names that the header holds, or 0.
FirstOf(guide, names) ==
    LET has == { n \in 1..Len(names) : \E i \in 1..Len(guide) : guide[i] = names[n] } IN
    IF has = {} THEN 0
    ELSE LET n == CHOOSE m \in has : \A o \in has : m <= o
             at == { i \in 1..Len(guide) : guide[i] = names[n] }
         IN  (CHOOSE i \in at : \A j \in at : i <= j) - 1

\* cmd is the given words with one space between two of them.
SingleSpaced(cmd, words) ==
    /\ split(cmd) = words
    /\ Len(cmd) = 0 \/ (cmd[1] # " " /\ cmd[Len(cmd)] # " ")
    /\ \A i \in 1..(Len(cmd) - 1) : ~(cmd[i] = " " /\ cmd[i + 1] = " ")

\* C9: procs takes the user column from USER, else UID, else position 0,
\* the pid column from PID, else 0, the command column from COMMAND, else
\* CMD, else 0; it skips blank lines, and of the other lines it keeps, under
\* the token at the pid column (the last line of a pid standing), the token
\* at the user column and the tokens from the command column on, joined by
\* single spaces; it raises only when a line has no token at the pid or the
\* user column, never because the header lacks a column name.
C9_Procs ==
    (call = "procs" /\ pc # "start") =>
        LET ls == Lines(input.out)
            guide == split(ls[1])
            U == FirstOf(guide, <<USER, UID>>)
            P == FirstOf(guide, <<PID>>)
            C == FirstOf(guide, <<COMMAND, CMD>>)
            rows == { i \in 2..Len(ls) : ls[i] # <<>> }
            short == { i \in rows : Len(split(ls[i])) <= U \/ Len(split(ls[i])) <= P }
        IN  /\ pc = "raised" <=> short # {}
            /\ pc = "done" =>
                 /\ DOMAIN ret = { split(ls[i])[P + 1] : i \in rows }
                 /\ \A i \in rows :
                      LET comps == split(ls[i]) IN
                      (\A j \in rows : j > i => split(ls[j])[P + 1] # comps[P + 1]) =>
                          /\ ret[comps[P + 1]].user = comps[U + 1]
                          /\ SingleSpaced(ret[comps[P + 1]].cmd,
                                          SubSeq(comps, C + 1, Len(comps)))

\* C9: a header that names UID before USER and CMD before COMMAND, and a
\* process kept under it.
C9_Witness ==
    /\ call = "procs"
    /\ pc = "done"
    /\ split(Lines(input.out)[1]) = <<UID, USER, PID, CMD, COMMAND>>
    /\ <<"i">> \in DOMAIN ret
    /\ ret[<<"i">>].user = <<"1">>

----------------------------------------------------------------------------
(* C10 *)

\* The non-empty lines with fewer fields than the parser of the call reads.
Malformed(ls) ==
    CASE call = "vmstats" -> { i \in 1..Len(ls) : ls[i] # <<>> /\ Len(split(ls[i])) < 2 }
      [] call = "w" -> { i \in 1..Len(ls) : ls[i] # <<>> /\ Len(split(ls[i])) < 6 }
      [] call = "procs" ->
            { i \in 2..Len(ls) :
                /\ ls[i] # <<>>
                /\ \/ Len(split(ls[i])) <= FirstOf(split(ls[1]), <<USER, UID>>)
                   \/ Len(split(ls[i])) <= FirstOf(split(ls[1]), <<PID>>) }
      [] call = "netstats" ->
            { i \in 2..Len(ls) :
                /\ split(ls[i]) # <<>>
                /\ split(ls[i - 1]) # <<>>
                /\ split(ls[i])[1] = split(ls[i - 1])[1]
                /\ Len(split(ls[i])) < Len(split(ls[i - 1]))
                /\ (i > 2 /\ split(ls[i - 2]) # <<>>) =>
                       split(ls[i - 2])[1] # split(ls[i])[1] }
      [] OTHER -> {}

Parse(text) ==
    CASE call = "vmstats" -> vmstats(TRUE, text)
      [] call = "netstats" -> netstats(TRUE, text)
      [] call = "w" -> w(text)
      [] call = "procs" -> procs(text)

RaggedText == IF call \in {"w", "procs"} THEN input.out ELSE input.text

\* C10: in vmstats, netstats, w and procs a non-empty line with fewer fields
\* than the parser reads is skipped: the operation returns, and returns what
\* it returns for the same text without that line.
C10_MalformedLineSkipped ==
    (call \in {"vmstats", "netstats", "w", "procs"} /\ pc # "start"
        /\ (call \in {"vmstats", "netstats"} => input.isfile)) =>
        LET ls == Lines(RaggedText)
            bad == Malformed(ls)
        IN  bad # {} =>
               /\ pc = "done"
               /\ ret = Parse(JoinLines(Without(ls, bad))).ret

----------------------------------------------------------------------------
(* C6 *)

\* The record of five counters read from toks[at+1 .. at+5].
CpuRecord(toks, at) ==
    [user |-> _number(toks[at + 1]), nice |-> _number(toks[at + 2]),
     system |-> _number(toks[at + 3]), irq |-> _number(toks[at + 4]),
     idle |-> _number(toks[at + 5])]

\* C6: for a kern.cp_times string of L tokens cpustats returns exactly
\* floor(L/5) per-core records, cpu0 .. cpu(floor(L/5)-1), and no other
\* cpu<index> key; cpu<k> takes user, nice, system, irq, idle from the tokens
\* 5k .. 5k+4 in that order; leftover tokens make no record (and no error);
\* the record 'cpu' comes from the five tokens of kern.cp_time alone.
C6_PerCoreFanOut ==
    (call = "cpustats" /\ pc # "start") =>
        LET toks == split(input.cp_times)
            L == Len(toks)
            n == CHOOSE m \in 0..L : 5 * m <= L /\ L < 5 * m + 5
            agg == split(input.cp_time)
        IN  /\ pc = "raised" => (Len(input.boottime) < 4 \/ Len(agg) # 5)
            /\ pc = "done" =>
                 /\ { k \in DOMAIN ret : Len(k) > 3 /\ SubSeq(k, 1, 3) = K_cpu }
                        = { K_cpu \o str(k) : k \in 0..(n - 1) }
                 /\ \A k \in 0..(n - 1) : ret[K_cpu \o str(k)] = CpuRecord(toks, 5 * k)
                 /\ ret[K_cpu] = CpuRecord(agg, 0)

\* C6: seven tokens have made one per-core record, the two left over none.
C6_Witness ==
    /\ call = "cpustats"
    /\ pc = "done"
    /\ Len(split(input.cp_times)) = 7
    /\ (K_cpu \o <<"0">>) \in DOMAIN ret
    /\ (K_cpu \o <<"1">>) \notin DOMAIN ret
    /\ ret[K_cpu \o <<"0">>].user = Integer(20)
    /\ ret[K_cpu].user = Integer(100)

----------------------------------------------------------------------------
(* C7 *)

\* The fields of each row of the process listing.
PsRowFields(text) ==
    LET rows == splitlines(text) IN [i \in 1..Len(rows) |-> split(rows[i])]

\* The rows whose kernel-thread field (the fifth) is not "0".
PsCounted(F) == { i \in DOMAIN F : F[i][5] # <<"0">> }

HasChar(c, t) == \E i \in 1..Len(t) : t[i] = c

----------------------------------------------------------------------------
(* C8 *)

IrqLines == { i \in 1..Len(splitlines(input.vmstat)) :
                  startswith(splitlines(input.vmstat)[i], <<"i","r","q">>) }

\* The N of the line "irq<N>: <device> <total> <rate>", and its total.
IrqNumber(i) ==
    LET name == split(splitlines(input.vmstat)[i])[1]
        colon == CHOOSE j \in 1..Len(name) : name[j] = ":" /\ \A m \in 1..(j-1) : name[m] # ":"
    IN  DigitsVal(SubSeq(name, 4, colon - 1))

IrqTotal(i) == Integer(DigitsVal(split(splitlines(input.vmstat)[i])[3]))

\* C8: after any sequence of 'irq<N>:' lines, N >= 0 in any order and with
\* gaps, the call has not failed and intr.irqs is a sequence in which every
\* reported IRQ has a position of its own, in the order of the IRQ numbers,
\* holding the total of its (last) line, every other position holding 0.
C8_InterruptTable ==
    (call = "cpustats" /\ pc # "start") =>
        /\ pc = "done"
        /\ LET irqs == ret[K_intr][K_irqs]
               reported == { IrqNumber(i) : i \in IrqLines }
               last(N) == CHOOSE i \in IrqLines :
                              /\ IrqNumber(i) = N
                              /\ \A j \in IrqLines : IrqNumber(j) = N => j <= i
           IN  \E f \in [reported -> 1..Len(irqs)] :
                  /\ \A a, b \in reported : a < b => f[a] < f[b]
                  /\ \A N \in reported : irqs[f[N]] = IrqTotal(last(N))
                  /\ \A at \in 1..Len(irqs) :
                         (\A N \in reported : f[N] # at) => irqs[at] = Integer(0)

----------------------------------------------------------------------------
(* C2 *)

\* The counters of the network schema, in the order of a line.
NetdevSchema ==
    << "rx_bytes", "rx_packets", "rx_errs", "rx_drop", "rx_fifo", "rx_frame",
       "rx_compressed", "rx_multicast", "tx_bytes", "tx_packets", "tx_errs",
       "tx_drop", "tx_fifo", "tx_colls", "tx_carrier", "tx_compressed" >>

\* What follows the first colon of a line.
AfterColon(l) == Tail_n(l, Len(Upto(l, ":")) + 1)

\* A line of the form name:n1 n2 ... n16, with or without blanks after the colon.
DeviceLine(l) ==
    /\ HasChar(":", l)
    /\ ~HasChar(":", AfterColon(l))
    /\ Len(split(AfterColon(l))) = 16

\* C2: for every line of the form name:n1 ... n16 the record under name has
\* rx_bytes = n1, rx_packets = n2, ... tx_compressed = n16, whether or not
\* whitespace follows the colon.
C2_NetdevRecords ==
    ( /\ call = "netdev"
      /\ pc # "start"
      /\ input.isfile
      /\ \A i \in 1..Len(Lines(input.text)) : DeviceLine(Lines(input.text)[i])
      /\ \A i, j \in 1..Len(Lines(input.text)) :
             i # j => Upto(Lines(input.text)[i], ":") # Upto(Lines(input.text)[j], ":") ) =>
        /\ pc = "done"
        /\ \A i \in 1..Len(Lines(input.text)) :
              LET l == Lines(input.text)[i]
                  name == Core(Upto(l, ":"))
                  n == split(AfterColon(l))
              IN  /\ name \in DOMAIN ret
                  /\ \A j \in 1..16 : ret[name][NetdevSchema[j]] = _number(n[j])

----------------------------------------------------------------------------
(* C3 *)

\* C3: whatever the state of the data sources, every pseudo-file absent
\* included, all_status returns one composite with an entry per category,
\* the entry of a category whose pseudo-file is absent being empty; it never
\* ends with an error.
C3_GatherAll ==
    (call = "all_status" /\ pc # "start") =>
        /\ pc = "done"
        /\ DOMAIN ret = { "cpuinfo", "cpustats", "diskstats", "loadavg", "meminfo",
                          "netdev", "netstats", "uptime", "vmstats", "w" }
        /\ ~input.isfile.diskstats => ret["diskstats"] = EmptyDict
        /\ ~input.isfile.netdev => ret["netdev"] = EmptyDict
        /\ ~input.isfile.netstat => ret["netstats"] = EmptyDict
        /\ ~input.isfile.vmstat => ret["vmstats"] = EmptyDict

----------------------------------------------------------------------------
(* C4 *)

\* A shell glob against a whole string: '*' is any run of characters, '?'
\* any one character.
RECURSIVE GlobMatch(_, _)
GlobMatch(g, t) ==
    IF g = <<>> THEN t = <<>>
    ELSE IF Head(g) = "*"
    THEN GlobMatch(Tail(g), t) \/ (t # <<>> /\ GlobMatch(g, Tail(t)))
    ELSE /\ t # <<>>
         /\ Head(g) = "?" \/ Head(g) = Head(t)
         /\ GlobMatch(Tail(g), Tail(t))

\* The (mount point, fstype) pairs of the mount table.
MountTable(text) ==
    { <<split(l)[2], split(l)[3]>> :
        l \in { Lines(text)[k] : k \in { j \in 1..Len(Lines(text)) :
                                           Len(split(Lines(text)[j])) >= 3 } } }

\* The arguments that begin with '/', and the mount points whose fstype some
\* other argument matches; every mount point when there is no argument.
ExpectedPaths(args, table) ==
    LET given == { args[i] : i \in 1..Len(args) }
        paths == { a \in given : a # <<>> /\ a[1] = "/" }
    IN  IF args = <<>> THEN { m[1] : m \in table }
        ELSE paths \cup { m[1] : m \in { e \in table :
                                           \E a \in given \ paths : GlobMatch(a, e[2]) } }

\* With the one argument "ext?": the mount points of ext2, ext3 and ext4.
ExtExample(args, table, paths) ==
    args = << <<"e","x","t","?">> >> =>
        paths = { m[1] : m \in { e \in table :
                    e[2] \in { <<"e","x","t","2">>, <<"e","x","t","3">>, <<"e","x","t","4">> } } }

====
